---- MODULE Spec2Model ----
(***************************************************************************)
(* The Jam evaluator (src/jam.py, run_jam_code) as a state machine.        *)
(*                                                                         *)
(* A source line is a record naming the statement shape the evaluator's    *)
(* prefix/suffix tests recognise (startswith, endswith, ==), with the      *)
(* pieces the handler cuts out of the text.  run_lines is recursive in the *)
(* code; here every activation is a frame of `stack`, and a Python         *)
(* exception in flight is the variable `exc`, unwound frame by frame.      *)
(* The model's programs do not use `map`, the string operations, timers,   *)
(* `ask` or `random between`.                                              *)
(*                                                                         *)
(* Four specifications:                                                    *)
(*   Spec          one call of run_jam_code, statement by statement        *)
(*   SpecLive      Spec with the fairness of its one sequential thread     *)
(*   SpecRequests  two calls of run_jam_code whose steps interleave        *)
(*   SpecRender    successive calls of the generator jam_to_js             *)
(*                 (src/Archives/jam(v1.1.0).py) in one process            *)
(***************************************************************************)
EXTENDS Integers, Sequences, FiniteSets, TLC

VARIABLES code, stack, variables, locals, functions, output, status, exc, obs

\* two calls of run_jam_code in one process (the /run endpoint of src/app.py):
\* see "Requests" below
VARIABLES runs, tables, stdout, buffers

\* the module-level state of the generator jam_to_js and the texts it
\* returned: see "The generator" below
VARIABLES symbol_table, type_warnings, _anon_counter, renders

evaluator == <<code, stack, variables, locals, functions, output, status, exc, obs>>
requests == <<runs, tables, stdout, buffers>>
renderer == <<symbol_table, type_warnings, _anon_counter, renders>>

vars == <<evaluator, requests, renderer>>

(***************************************************************************)
(* Bounds of the model.                                                    *)
(***************************************************************************)
\* integers the model's programs assign to x
MaxX == 5
\* largest literal repeat count of the model's programs
MaxCount == 2
\* numerals int() is asked to parse lie in -MaxNumeral..MaxNumeral
MaxNumeral == 9
\* activations of run_lines the interpreter allows on its stack before it
\* raises RecursionError (sys.getrecursionlimit(), scaled down)
RecursionLimit == 6

(***************************************************************************)
(* Values: Python objects the evaluator handles, tagged by type.           *)
(* n is the integer content (for a float: its truncation, for a bool 0/1), *)
(* s the text content (for a float or list: its str()).                    *)
(***************************************************************************)
IntV(n) == [k |-> "int", n |-> n, s |-> ""]
TextV(s) == [k |-> "text", n |-> 0, s |-> s]
BoolV(b) == [k |-> "bool", n |-> IF b THEN 1 ELSE 0, s |-> ""]
FloatV(whole, text) == [k |-> "float", n |-> whole, s |-> text]
ListV(text) == [k |-> "list", n |-> 0, s |-> text]
NoneV == [k |-> "none", n |-> 0, s |-> ""]

\* str(value), as print() renders it
Str(v) ==
  CASE v.k = "int" -> ToString(v.n)
    [] v.k = "bool" -> (IF v.n = 1 THEN "True" ELSE "False")
    [] v.k = "none" -> "None"
    [] OTHER -> v.s

(***************************************************************************)
(* Expression texts.  t names the shape of the text:                       *)
(*   "int" 12 | "float" 2.5 | "bool" true/false | "str" "abc" | "list" [1] *)
(*   "name" x | "plus" x + 1 | "gt" x > 3 | "lt" x < 3                      *)
(* A "str" with n = 1 is written in single quotes: 'abc'.                  *)
(***************************************************************************)
EInt(n) == [t |-> "int", n |-> n, s |-> ""]
EFloat(whole, text) == [t |-> "float", n |-> whole, s |-> text]
EBool(b) == [t |-> "bool", n |-> IF b THEN 1 ELSE 0, s |-> ""]
EStr(s) == [t |-> "str", n |-> 0, s |-> s]
EStr1(s) == [t |-> "str", n |-> 1, s |-> s]
EList(text) == [t |-> "list", n |-> 0, s |-> text]
EName(x) == [t |-> "name", n |-> 0, s |-> x]
EPlus(x, n) == [t |-> "plus", n |-> n, s |-> x]
EGt(x, n) == [t |-> "gt", n |-> n, s |-> x]
ELt(x, n) == [t |-> "lt", n |-> n, s |-> x]

\* the expression as written in the source line
ExprText(e) ==
  CASE e.t = "int" -> ToString(e.n)
    [] e.t = "bool" -> (IF e.n = 1 THEN "true" ELSE "false")
    [] e.t = "str" -> (IF e.n = 1 THEN "'" \o e.s \o "'" ELSE "\"" \o e.s \o "\"")
    [] e.t = "name" -> e.s
    [] e.t = "plus" -> e.s \o " + " \o ToString(e.n)
    [] e.t = "gt" -> e.s \o " > " \o ToString(e.n)
    [] e.t = "lt" -> e.s \o " < " \o ToString(e.n)
    [] OTHER -> e.s

\* Python's eval(text, {"__builtins__": {}}, dict(env)) on the shapes above:
\* [ok |-> FALSE] stands for any exception it raises
PyEval(e, env) ==
  LET bound == e.s \in DOMAIN env
      num == bound /\ env[e.s].k \in {"int", "bool"}
  IN CASE e.t = "name" ->
            IF bound THEN [ok |-> TRUE, v |-> env[e.s]] ELSE [ok |-> FALSE, v |-> NoneV]
       [] e.t = "plus" ->
            IF num THEN [ok |-> TRUE, v |-> IntV(env[e.s].n + e.n)]
            ELSE [ok |-> FALSE, v |-> NoneV]
       [] e.t = "gt" ->
            IF num THEN [ok |-> TRUE, v |-> BoolV(env[e.s].n > e.n)]
            ELSE [ok |-> FALSE, v |-> NoneV]
       [] e.t = "lt" ->
            IF num THEN [ok |-> TRUE, v |-> BoolV(env[e.s].n < e.n)]
            ELSE [ok |-> FALSE, v |-> NoneV]
       [] e.t = "bool" -> [ok |-> TRUE, v |-> BoolV(e.n = 1)]
       [] e.t = "int" -> [ok |-> TRUE, v |-> IntV(e.n)]
       [] e.t = "str" -> [ok |-> TRUE, v |-> TextV(e.s)]
       [] OTHER -> [ok |-> FALSE, v |-> NoneV]

\* bool(value)
Truthy(v) ==
  CASE v.k \in {"int", "bool", "float"} -> v.n # 0
    [] v.k = "text" -> v.s # ""
    [] v.k = "list" -> v.s # "[]"
    [] OTHER -> FALSE

\* the alternative that looks the text up in the dictionary first
EvalInNameFirst(e, env) ==
  IF ExprText(e) \in DOMAIN env THEN env[ExprText(e)]
  ELSE CASE e.t = "bool" -> BoolV(e.n = 1)
         [] e.t = "str" -> TextV(e.s)
         [] e.t = "list" -> ListV(e.s)
         [] e.t = "int" -> IntV(e.n)
         [] e.t = "float" -> FloatV(e.n, e.s)
         [] OTHER -> IF PyEval(e, env).ok THEN PyEval(e, env).v ELSE TextV(ExprText(e))
\* the evaluation of an expression text against a dictionary: the body of
\* eval_expr with the dictionary it reads made a parameter
EvalIn(e, env) ==
  CASE e.t = "bool" -> BoolV(e.n = 1)
    [] e.t = "str" -> TextV(e.s)
    [] e.t = "list" -> ListV(e.s)
    [] e.t = "int" -> IntV(e.n)
    [] e.t = "float" -> FloatV(e.n, e.s)
    [] OTHER ->
         IF ExprText(e) \in DOMAIN env THEN env[ExprText(e)]
         ELSE IF PyEval(e, env).ok THEN PyEval(e, env).v
         ELSE TextV(ExprText(e))

\* eval_expr: reads the run's global `variables`, whatever block is running
eval_expr(e) == EvalIn(e, variables)

\* eval_expr reaches its last line, `except: return e`: the text is no
\* literal, no key of the dictionary, and eval() raises on it
FallsThrough(e, env) ==
  /\ e.t \in {"name", "plus", "gt", "lt"}
  /\ ExprText(e) \notin DOMAIN env
  /\ ~PyEval(e, env).ok

\* the condition's truth against a dictionary; any exception is False
CondIn(c, env) == IF PyEval(c, env).ok THEN Truthy(PyEval(c, env).v) ELSE FALSE

\* eval_condition: also against the global `variables`
eval_condition(c) == CondIn(c, variables)

\* type(value).__name__
TypeName(v) ==
  CASE v.k = "text" -> "str"
    [] v.k = "none" -> "NoneType"
    [] OTHER -> v.k

\* int(value), as `repeat` applies it to its count: [ok |-> FALSE] is the
\* ValueError / TypeError it raises
PyInt(v) ==
  CASE v.k \in {"int", "bool", "float"} -> [ok |-> TRUE, n |-> v.n, err |-> ""]
    [] v.k = "text" ->
         IF \E n \in (0 - MaxNumeral)..MaxNumeral : ToString(n) = v.s
         THEN [ok |-> TRUE,
               n |-> CHOOSE n \in (0 - MaxNumeral)..MaxNumeral : ToString(n) = v.s,
               err |-> ""]
         ELSE [ok |-> FALSE, n |-> 0,
               err |-> "invalid literal for int() with base 10: '" \o v.s \o "'"]
    [] OTHER ->
         [ok |-> FALSE, n |-> 0,
          err |-> "int() argument must be a string, a bytes-like object or a real number, not '"
                  \o TypeName(v) \o "'"]

\* value + value, as `add` applies it (the model adds no floats or lists)
PyAdd(a, b) ==
  CASE a.k \in {"int", "bool"} /\ b.k \in {"int", "bool"} ->
         [ok |-> TRUE, v |-> IntV(a.n + b.n), err |-> ""]
    [] a.k = "text" /\ b.k = "text" -> [ok |-> TRUE, v |-> TextV(a.s \o b.s), err |-> ""]
    [] a.k = "text" ->
         [ok |-> FALSE, v |-> NoneV,
          err |-> "can only concatenate str (not \"" \o TypeName(b) \o "\") to str"]
    [] OTHER ->
         [ok |-> FALSE, v |-> NoneV,
          err |-> "unsupported operand type(s) for +: '" \o TypeName(a) \o "' and '"
                  \o TypeName(b) \o "'"]

(***************************************************************************)
(* Source lines (already stripped).  k names the shape of the text:        *)
(*   "blank" | "comment"  # ...                                            *)
(*   "if"  if C {        | "elseif"  else if C {     | "else"  else {      *)
(*   "close"  }          | "closeelseif"  } else if C { | "closeelse" } else { *)
(*   "repeat"  repeat E { | "function"  function f (p, q) {                *)
(*   "set"  set v = E    | "print"  print E  | "add"  add E and E2 into v  *)
(*   "return"  return E  | "call"  call f(A, B)                            *)
(*   "choose"  choose from A, B into v                                     *)
(* id is the line's number in the program text.                            *)
(***************************************************************************)
NoE == EStr("")
L(k, e, e2, v, f, params, args) ==
  [k |-> k, e |-> e, e2 |-> e2, v |-> v, f |-> f, params |-> params,
   args |-> args, id |-> 0]

Blank == L("blank", NoE, NoE, "", "", <<>>, <<>>)
Comment == L("comment", NoE, NoE, "", "", <<>>, <<>>)
If(c) == L("if", c, NoE, "", "", <<>>, <<>>)
ElseIf(c) == L("elseif", c, NoE, "", "", <<>>, <<>>)
Else == L("else", NoE, NoE, "", "", <<>>, <<>>)
Close == L("close", NoE, NoE, "", "", <<>>, <<>>)
CloseElseIf(c) == L("closeelseif", c, NoE, "", "", <<>>, <<>>)
CloseElse == L("closeelse", NoE, NoE, "", "", <<>>, <<>>)
Repeat(e) == L("repeat", e, NoE, "", "", <<>>, <<>>)
Function(f, params) == L("function", NoE, NoE, "", f, params, <<>>)
SetL(v, e) == L("set", e, NoE, v, "", <<>>, <<>>)
PrintL(e) == L("print", e, NoE, "", "", <<>>, <<>>)
AddL(a, b, v) == L("add", a, b, v, "", <<>>, <<>>)
ReturnL(e) == L("return", e, NoE, "", "", <<>>, <<>>)
CallL(f, args) == L("call", NoE, NoE, "", f, <<>>, args)
Choose(opts, v) == L("choose", NoE, NoE, v, "", <<>>, opts)

\* code.splitlines(): the lines of the text, numbered
Numbered(p) == [i \in 1..Len(p) |-> [p[i] EXCEPT !.id = i]]

\* `not s or s.startswith("#")`
IsSkipped(l) == l.k \in {"blank", "comment"}
\* s.endswith("{")
EndsWithBrace(l) ==
  l.k \in {"if", "elseif", "else", "closeelseif", "closeelse", "repeat", "function"}
\* s == "}"
IsCloseBrace(l) == l.k = "close"

(***************************************************************************)
(* The identifier diagnostics `set` runs on its target name.  Python's     *)
(* string tests work on characters, so a name is looked up in Spelling to  *)
(* get its characters.                                                     *)
(***************************************************************************)
Spelling ==
  ("x" :> <<"x">>) @@
  ("y" :> <<"y">>) @@
  ("t" :> <<"t">>) @@
  ("n" :> <<"n">>) @@
  ("c" :> <<"c">>) @@
  ("z" :> <<"z">>) @@
  ("i" :> <<"i">>) @@
  ("last_return" :> <<"l", "a", "s", "t", "_", "r", "e", "t", "u", "r", "n">>) @@
  ("{x" :> <<"{", "x">>) @@
  ("a-b" :> <<"a", "-", "b">>) @@
  ("2x" :> <<"2", "x">>) @@
  ("return" :> <<"r", "e", "t", "u", "r", "n">>) @@
  ("print" :> <<"p", "r", "i", "n", "t">>) @@
  ("password" :> <<"p", "a", "s", "s", "w", "o", "r", "d">>) @@
  ("myPassword" :> <<"m", "y", "P", "a", "s", "s", "w", "o", "r", "d">>)

Chars(name) == IF name \in DOMAIN Spelling THEN Spelling[name] ELSE <<>>

UpperCase == <<"A", "B", "C", "D", "E", "F", "G", "H", "I", "J", "K", "L", "M", "N", "O", "P", "Q", "R", "S", "T", "U", "V", "W", "X", "Y", "Z">>
LowerCase == <<"a", "b", "c", "d", "e", "f", "g", "h", "i", "j", "k", "l", "m", "n", "o", "p", "q", "r", "s", "t", "u", "v", "w", "x", "y", "z">>
Digits == {"0", "1", "2", "3", "4", "5", "6", "7", "8", "9"}
Letters == {UpperCase[k] : k \in 1..Len(UpperCase)} \cup {LowerCase[k] : k \in 1..Len(LowerCase)}

\* str.lower(), character by character
Lower(w) ==
  [k \in 1..Len(w) |->
     IF \E u \in 1..Len(UpperCase) : UpperCase[u] = w[k]
     THEN LowerCase[CHOOSE u \in 1..Len(UpperCase) : UpperCase[u] = w[k]]
     ELSE w[k]]

\* w.startswith(p), w.endswith(p), p in w
StartsWith(w, p) == Len(p) <= Len(w) /\ SubSeq(w, 1, Len(p)) = p
EndsWith(w, p) == Len(p) <= Len(w) /\ SubSeq(w, Len(w) - Len(p) + 1, Len(w)) = p
Contains(w, p) == \E k \in 0..(Len(w) - Len(p)) : SubSeq(w, k + 1, k + Len(p)) = p

keyword_patterns ==
  <<[keyword |-> "if",
      patterns |-> {<<"i">>, <<"f">>, <<"f", "i">>, <<"i", "f", "f">>, <<"i", "g">>},
      messages |-> {"Did you mean 'if'?", "Looks like you're aiming for 'if'.", "Try 'if' instead of that."}],
    [keyword |-> "else",
      patterns |-> {<<"e", "l", "s">>, <<"e", "s", "e">>, <<"e", "s", "l", "e">>, <<"e", "l", "s", "e", "e">>, <<"e", "l", "e", "s">>, <<"e", "l", "l", "s">>},
      messages |-> {"Did you mean 'else'?", "Looks like a typo of 'else'.", "Use 'else' instead."}],
    [keyword |-> "function",
      patterns |-> {<<"f", "u", "n", "c", "t", "o", "n">>, <<"f", "u", "n", "c", "t", "i", "n">>, <<"f", "u", "n", "t", "i", "o", "n">>, <<"f", "u", "n", "c", "i", "t", "o", "n">>, <<"f", "u", "c", "n", "t", "i", "o", "n">>, <<"f", "u", "n", "c", "s", "h", "u", "n">>},
      messages |-> {"Did you mean 'function'?", "That looks close to 'function'."}],
    [keyword |-> "return",
      patterns |-> {<<"r", "e", "t", "u", "n">>, <<"r", "e", "t", "r", "n">>, <<"e", "t", "u", "r">>, <<"r", "e", "u", "t", "r", "n">>, <<"o", "u", "t", "p", "u", "t">>},
      messages |-> {"Did you mean 'return'?", "That resembles 'return'."}],
    [keyword |-> "repeat",
      patterns |-> {<<"r", "e", "p", "e", "a">>, <<"r", "e", "p", "a", "t", "e">>, <<"r", "e", "p", "e", "e", "t">>, <<"l", "o", "o", "p">>, <<"a", "g", "a", "i", "n">>},
      messages |-> {"Did you mean 'repeat'?", "Looks like a typo of 'repeat'."}],
    [keyword |-> "set",
      patterns |-> {<<"s", "e">>, <<"s", "t">>, <<"e", "s", "t">>, <<"s", "e", "t", "t">>, <<"a", "s", "s", "i", "g", "n">>, <<"l", "e", "t">>, <<"v", "a", "r">>},
      messages |-> {"Try using 'set'.", "You probably meant 'set'."}]>>

reserved == {"if", "else", "function", "return", "repeat", "set", "print", "say", "ask"}

NoDiag == [raised |-> FALSE, severity |-> "", message |-> "", suggestions |-> {""}, example |-> ""]
Diag(severity, message, suggestions, example) ==
  [raised |-> TRUE, severity |-> severity, message |-> message,
   suggestions |-> suggestions, example |-> example]

validate_empty_name(name) ==
  IF name = ""
  THEN Diag("Error", "Variable name missing.",
            {"Variable names start with letters and can contain letters, numbers, and underscores."},
            "set myVariable = 10")
  ELSE NoDiag

validate_password(name) ==
  IF Contains(Lower(Chars(name)), <<"p", "a", "s", "s", "w", "o", "r", "d">>)
  THEN Diag("Concept", "Variable name '" \o name \o "' contains sensitive information.",
            {"Avoid using 'password' in variable names."}, "")
  ELSE NoDiag

validate_braces(name) ==
  IF StartsWith(Chars(name), <<"{">>) /\ ~EndsWith(Chars(name), <<"}">>)
  THEN Diag("Error", "Variable name '" \o name \o "' doesn't have closing braces!",
            {"Close any opening braces."}, "")
  ELSE NoDiag

\* the first keyword pattern, in table order, one of whose misspellings the name starts with
validate_keyword_typos(name) ==
  LET hits == {k \in 1..Len(keyword_patterns) :
                 \E q \in keyword_patterns[k].patterns : StartsWith(Chars(name), q)}
  IN IF hits = {} THEN NoDiag
     ELSE LET kp == keyword_patterns[CHOOSE k \in hits : \A h \in hits : k <= h]
          IN Diag("Concept",
                  "'" \o name \o "' looks like a misspelling of '" \o kp.keyword \o "'.",
                  kp.messages, "")

\* re.match(r"^[a-zA-Z_][a-zA-Z0-9_]*$", name)
validate_allowed_chars(name) ==
  LET w == Chars(name)
      good == /\ Len(w) >= 1
              /\ w[1] \in Letters \cup {"_"}
              /\ \A k \in 2..Len(w) : w[k] \in Letters \cup Digits \cup {"_"}
  IN IF good THEN NoDiag
     ELSE Diag("Error", "Invalid characters in '" \o name \o "'.",
               {"Use only letters, digits, and underscores."}, "set my_variable = 10")

validate_reserved(name) ==
  IF name \in reserved
  THEN Diag("Error", "'" \o name \o "' is a reserved keyword.",
            {"Choose a different variable name."}, "set " \o name \o "_value = 10")
  ELSE NoDiag

\* the registered validators, in registration order
validators(name) ==
  <<validate_empty_name(name), validate_password(name), validate_braces(name),
    validate_keyword_typos(name), validate_allowed_chars(name), validate_reserved(name)>>

\* the alternative that runs every validator and keeps the last diagnostic
validate_all(name) ==
  LET rs == validators(name)
      hits == {k \in 1..Len(rs) : rs[k].raised}
  IN IF hits = {} THEN NoDiag ELSE rs[CHOOSE k \in hits : \A h \in hits : k >= h]
\* validate_variable_name: the SyntaxErrorJam of the first validator that raises
validate_variable_name(name) ==
  LET rs == validators(name)
      hits == {k \in 1..Len(rs) : rs[k].raised}
  IN IF hits = {} THEN NoDiag ELSE rs[CHOOSE k \in hits : \A h \in hits : k <= h]

\* the source text of a `set` line, as the diagnostic echoes it
SetLineText(l) == "set " \o l.v \o " = " \o ExprText(l.e)

\* format_n_show_error: the lines it prints, for the suggestion chosen
format_n_show_error(d, suggestion, line_num, text) ==
  <<d.severity \o ": " \o d.message \o " (line " \o ToString(line_num) \o ")",
    "  >> " \o text>>
  \o (IF suggestion # "" THEN <<"Suggestion: " \o suggestion>> ELSE <<>>)
  \o (IF d.example # "" THEN <<"Example: " \o d.example>> ELSE <<>>)

(***************************************************************************)
(* parse_block(lines, start): the block and the index it stopped at.       *)
(* Indices are 1-based here: the code's index i is i + 1 in the model, and *)
(* the code's len(lines) is Len(lines) + 1.                                *)
(***************************************************************************)
RECURSIVE ParseFrom(_, _, _, _)
ParseFrom(lines, i, depth, block) ==
  IF i > Len(lines) THEN [block |-> block, j |-> i, closed |-> FALSE]
  ELSE IF IsSkipped(lines[i]) THEN ParseFrom(lines, i + 1, depth, block)
  ELSE IF EndsWithBrace(lines[i])
       THEN ParseFrom(lines, i + 1, depth + 1, Append(block, lines[i]))
  ELSE IF IsCloseBrace(lines[i])
       THEN IF depth = 0 THEN [block |-> block, j |-> i, closed |-> TRUE]
            ELSE ParseFrom(lines, i + 1, depth - 1, Append(block, lines[i]))
  ELSE ParseFrom(lines, i + 1, depth, Append(block, lines[i]))

\* the alternative that starts one level deep: it ends at the second brace
parse_block_deep(lines, start) == ParseFrom(lines, start, 1, <<>>)
parse_block(lines, start) == ParseFrom(lines, start, 0, <<>>)

RECURSIVE _skip_blank(_, _)
_skip_blank(lines, idx) ==
  IF idx <= Len(lines) /\ IsSkipped(lines[idx]) THEN _skip_blank(lines, idx + 1)
  ELSE idx

(***************************************************************************)
(* State.                                                                  *)
(*   code       all_lines, the program being run                           *)
(*   stack      the activations of run_lines, innermost last               *)
(*   variables  the run's global dictionary                                *)
(*   locals     the `local` dictionaries of the calls in progress          *)
(*   functions  name -> (params, body)                                     *)
(*   output     the lines printed into the StringIO, each without its "\n" *)
(*   status     "running" until run_jam_code returns ("returned")          *)
(*   exc        the exception propagating, if any                          *)
(*   obs        observations of the run the properties are stated on       *)
(***************************************************************************)
EmptyDict == [nm \in {} |-> NoneV]
\* d[name] = val
Bind(d, name, val) == (name :> val) @@ d

NoExc == [kind |-> "none", v |-> NoneV, msg |-> ""]
\* _JamReturn(val): str() of it is str(val)
JamReturn(val) == [kind |-> "return", v |-> val, msg |-> Str(val)]
\* any other exception raised by a handler, with its message
PyError(msg) == [kind |-> "error", v |-> NoneV, msg |-> msg]

\* an activation run_lines(lines, 0, env): env 0 is `variables`, env d > 0 is
\* locals[d].  pc is where the activation stands: "stmt" at the head of its
\* while loop, or inside a handler waiting for the nested run_lines to return
\* ("branch": an if / else if body, "elsebody", "repeat", "call"), or in the
\* else-chain loop of the if handler ("chain").  snap and post are
\* observations: the activation's dictionary as it was when its last call
\* started, and how that call ended ("return", "end") until the next
\* statement runs.
Frame(lines, env) ==
  [lines |-> lines, i |-> 1, env |-> env, pc |-> "stmt", taken |-> FALSE,
   j |-> 0, block |-> <<>>, cnt |-> 0, iters |-> 0, snap |-> EmptyDict, post |-> ""]

Top == stack[Len(stack)]
Below == stack[Len(stack) - 1]
Line == Top.lines[Top.i]
EnvOf(f) == IF f.env = 0 THEN variables ELSE locals[f.env]
Pop(st) == SubSeq(st, 1, Len(st) - 1)
SetTop(f) == [stack EXCEPT ![Len(stack)] = f]
\* i += 1; continue
Step(f) == [f EXCEPT !.i = @ + 1, !.post = ""]

\* the handler of a line of shape k is about to run in the innermost activation
At(kinds) ==
  /\ status = "running"
  /\ exc.kind = "none"
  /\ stack # <<>>
  /\ Top.pc = "stmt"
  /\ Top.i <= Len(Top.lines)
  /\ Line.k \in kinds

\* the innermost run_lines has run off the end of its lines and returns to
\* a handler waiting in state pc
Returning(pc) ==
  /\ status = "running"
  /\ exc.kind = "none"
  /\ Len(stack) >= 2
  /\ Top.pc = "stmt"
  /\ Top.i > Len(Top.lines)
  /\ Below.pc = pc

\* env[name] = val in the dictionary the activation f runs against
WriteEnv(f, name, val) ==
  IF f.env = 0
  THEN /\ variables' = Bind(variables, name, val)
       /\ UNCHANGED locals
  ELSE /\ locals' = [locals EXCEPT ![f.env] = Bind(@, name, val)]
       /\ UNCHANGED variables

\* observations: the ids of the lines whose handler ran, in order
Ran(o, l) == [o EXCEPT !.trace = Append(@, l.id)]
\* observations: an exception is raised, with the output and the number of
\* statements run so far; it is fatal unless it is a _JamReturn raised
\* while some call is in progress
Raised(o, e) ==
  [o EXCEPT !.raised =
     [kind |-> e.kind, out |-> output, n |-> Len(o.trace), msg |-> e.msg,
      fatal |-> (e.kind = "error" \/ \A k \in 1..Len(stack) : stack[k].pc # "call")]]
\* observations: a binding statement wrote name into the dictionary of f
Wrote(o, f, name) == [o EXCEPT !.writes = Append(@, [env |-> f.env, name |-> name])]
\* observations: a `repeat` header was run: the value of its count as the
\* evaluator computed it, int() of it, and int() of the count's value in the
\* block's own dictionary
Counted(o, e, f) ==
  [o EXCEPT !.rep = [n |-> Len(o.trace), val |-> eval_expr(e), got |-> PyInt(eval_expr(e)),
                     want |-> PyInt(EvalIn(e, EnvOf(f)))]]
\* observations: parse_block ran off the end of the lines without meeting
\* the closing brace of the block of header l
Opened(o, pb, l) ==
  IF pb.closed THEN o ELSE [o EXCEPT !.open = [n |-> Len(o.trace), k |-> l.k, f |-> l.f]]
\* observations: a `call` of a name that is no function
Unknown(o) == [o EXCEPT !.unknown = Len(o.trace)]
\* observations: an expression of the running block was evaluated: what the
\* evaluator returned, its value in the block's own dictionary, and whether
\* the evaluator found no way to resolve it
Evaluated(o, e, f) ==
  [o EXCEPT !.eval = [got |-> eval_expr(e), want |-> EvalIn(e, EnvOf(f)), env |-> f.env,
                      n |-> Len(o.trace), raw |-> FallsThrough(e, variables),
                      e |-> e, vars |-> variables]]

\* observations: the name of a `set` line raised the diagnostic d: the
\* state before the handler ran, the value of the line's expression, and the
\* id of the line after it in its block (0 if it is the last)
Diagnosed(o, d, f) ==
  [o EXCEPT !.diag =
     [n |-> Len(o.trace), d |-> d, name |-> f.lines[f.i].v, line |-> f.i,
      text |-> SetLineText(f.lines[f.i]), out |-> output, vars |-> variables,
      locs |-> locals, env |-> f.env, val |-> eval_expr(f.lines[f.i].e),
      next |-> IF f.i < Len(f.lines) THEN f.lines[f.i + 1].id ELSE 0]]

\* observations: a `print` ran in activation f: where its line goes in the
\* output, the text of its expression's value in the block's own dictionary,
\* and whether the expression is a single literal or a name bound there
Logged(o, e, f) ==
  [o EXCEPT !.prints =
     Append(@, [at |-> Len(output) + 1, want |-> Str(EvalIn(e, EnvOf(f))), env |-> f.env,
                simple |-> (e.t \in {"int", "float", "bool", "str", "list"}
                            \/ (e.t = "name" /\ e.s \in DOMAIN EnvOf(f)))])]

\* observations: a `choose from` line ran in activation f
Chose(o, l, f) == [o EXCEPT !.choose = [n |-> Len(o.trace), opts |-> l.args, name |-> l.v,
                                        env |-> f.env, vars |-> EnvOf(f)]]

NoObs ==
  [trace |-> <<>>,
   choose |-> [n |-> 0, opts |-> <<>>, name |-> "", env |-> 0, vars |-> EmptyDict],
   prints |-> <<>>,
   diag |-> [n |-> 0, d |-> NoDiag, name |-> "", line |-> 0, text |-> "", out |-> <<>>,
             vars |-> EmptyDict, locs |-> <<>>, env |-> 0, val |-> NoneV, next |-> 0],
   raised |-> [kind |-> "none", out |-> <<>>, n |-> 0, msg |-> "", fatal |-> FALSE],
   eval |-> [got |-> NoneV, want |-> NoneV, env |-> 0, n |-> 0, raw |-> FALSE,
             e |-> NoE, vars |-> EmptyDict],
   writes |-> <<>>,
   rep |-> [n |-> 0, val |-> NoneV, got |-> PyInt(IntV(0)), want |-> PyInt(IntV(0))],
   open |-> [n |-> 0, k |-> "", f |-> ""],
   unknown |-> 0,
   end |-> ""]

(***************************************************************************)
(* Statement handlers of run_lines.                                        *)
(***************************************************************************)
\* `if not line or line.startswith("#")`
SkipLine ==
  /\ At({"blank", "comment"})
  /\ stack' = SetTop(Step(Top))
  /\ UNCHANGED <<requests, renderer, code, variables, locals, functions, output, status, exc, obs>>

\* print <expr>
PrintStmt ==
  /\ At({"print"})
  /\ output' = Append(output, Str(eval_expr(Line.e)))
  /\ stack' = SetTop(Step(Top))
  /\ obs' = Logged(Evaluated(Ran(obs, Line), Line.e, Top), Line.e, Top)
  /\ UNCHANGED <<requests, renderer, code, variables, locals, functions, status, exc>>

\* the alternative handler: the diagnostic is shown and the line goes on
SetSkipsNever(d) == FALSE
\* `except SyntaxErrorJam as error: ...; i += 1; continue`: a diagnostic of
\* any severity ends the handling of the line
SetSkips(d) == d.raised

\* set <var> = <expr>: the name is validated first; a SyntaxErrorJam is
\* shown and the line skipped
SetStmt ==
  /\ At({"set"})
  /\ LET d == validate_variable_name(Line.v)
     IN /\ IF d.raised
           THEN \E sg \in d.suggestions :
                  output' = output \o format_n_show_error(d, sg, Top.i, SetLineText(Line))
           ELSE UNCHANGED output
        /\ IF SetSkips(d)
           THEN /\ obs' = Diagnosed(Ran(obs, Line), d, Top)
                /\ UNCHANGED <<variables, locals>>
           ELSE /\ WriteEnv(Top, Line.v, eval_expr(Line.e))
                /\ obs' = Wrote(Evaluated(IF d.raised THEN Diagnosed(Ran(obs, Line), d, Top)
                                                      ELSE Ran(obs, Line),
                                          Line.e, Top),
                                Top, Line.v)
  /\ stack' = SetTop(Step(Top))
  /\ UNCHANGED <<requests, renderer, code, functions, status, exc>>

\* add <a> and <b> into <var>
AddStmt ==
  /\ At({"add"})
  /\ LET r == PyAdd(eval_expr(Line.e), eval_expr(Line.e2))
     IN IF r.ok
        THEN /\ WriteEnv(Top, Line.v, r.v)
             /\ stack' = SetTop(Step(Top))
             /\ obs' = Wrote(Evaluated(Ran(obs, Line), Line.e, Top), Top, Line.v)
             /\ UNCHANGED exc
        ELSE /\ exc' = PyError(r.err)
             /\ obs' = Raised(Ran(obs, Line), PyError(r.err))
             /\ UNCHANGED <<stack, variables, locals>>
  /\ UNCHANGED <<requests, renderer, code, functions, output, status>>

\* items_part.split(","): the texts between the commas; of an empty text,
\* the one empty text
Items(opts) == IF opts = <<>> THEN <<EName("")>> ELSE opts

\* choose from <options> into <var>: every item is evaluated, and
\* random.choice picks one of the values
ChooseStmt ==
  /\ At({"choose"})
  /\ \E k \in 1..Len(Items(Line.args)) :
       WriteEnv(Top, Line.v, eval_expr(Items(Line.args)[k]))
  /\ stack' = SetTop(Step(Top))
  /\ obs' = Wrote(Chose(Ran(obs, Line), Line, Top), Top, Line.v)
  /\ UNCHANGED <<requests, renderer, code, functions, output, status, exc>>

\* `if line == "}"`: a closing brace met as a statement
CloseBraceStmt ==
  /\ At({"close"})
  /\ stack' = SetTop(Step(Top))
  /\ obs' = Ran(obs, Line)
  /\ UNCHANGED <<requests, renderer, code, variables, locals, functions, output, status, exc>>

\* the final `i += 1`: a line no handler recognises.  `else if C {`, `else {`,
\* `} else if C {` and `} else {` are such lines when met as statements
UnknownStmt ==
  /\ At({"elseif", "else", "closeelseif", "closeelse"})
  /\ stack' = SetTop(Step(Top))
  /\ obs' = Ran(obs, Line)
  /\ UNCHANGED <<requests, renderer, code, variables, locals, functions, output, status, exc>>

\* one more activation of run_lines would exceed the interpreter's limit
TooDeep == Len(stack) >= RecursionLimit
\* the RecursionError Python raises then
RecursionError == PyError("maximum recursion depth exceeded")

\* a handler parks the activation in state pc and runs run_lines(block, 0, env)
Nested(f, pc, block, env) == Append(SetTop([f EXCEPT !.pc = pc, !.post = ""]), Frame(block, env))

\* if <cond> {: the block is cut out with parse_block; it runs when the
\* condition holds; then the else-chain loop starts after the block
IfStmt ==
  /\ At({"if"})
  /\ ~TooDeep
  /\ LET pb == parse_block(Top.lines, Top.i + 1)
     IN IF eval_condition(Line.e)
        THEN stack' = Nested([Top EXCEPT !.j = pb.j, !.taken = FALSE], "branch", pb.block, Top.env)
        ELSE stack' = SetTop([Top EXCEPT !.pc = "chain", !.taken = FALSE, !.post = "",
                                         !.i = _skip_blank(Top.lines, pb.j + 1)])
  /\ obs' = Opened(Ran(obs, Line), parse_block(Top.lines, Top.i + 1), Line)
  /\ UNCHANGED <<requests, renderer, code, variables, locals, functions, output, status, exc>>

\* the body of an if / else if branch returned: taken = True, and the chain
\* loop goes on after the block
BranchEnd ==
  /\ Returning("branch")
  /\ stack' = [Pop(stack) EXCEPT ![Len(stack) - 1] =
                 [Below EXCEPT !.pc = "chain", !.taken = TRUE,
                               !.i = _skip_blank(Below.lines, Below.j + 1)]]
  /\ UNCHANGED <<requests, renderer, code, variables, locals, functions, output, status, exc, obs>>

InChain ==
  /\ status = "running"
  /\ exc.kind = "none"
  /\ stack # <<>>
  /\ Top.pc = "chain"

\* chain loop, `nxt.startswith("else if ") and nxt.endswith("{")`
ElseIfStep ==
  /\ InChain
  /\ Top.i <= Len(Top.lines)
  /\ Line.k = "elseif"
  /\ ~TooDeep
  /\ LET pb == parse_block(Top.lines, Top.i + 1)
     IN IF ~Top.taken /\ eval_condition(Line.e)
        THEN stack' = Nested([Top EXCEPT !.j = pb.j], "branch", pb.block, Top.env)
        ELSE stack' = SetTop([Top EXCEPT !.i = _skip_blank(Top.lines, pb.j + 1)])
  /\ obs' = Opened(Ran(obs, Line), parse_block(Top.lines, Top.i + 1), Line)
  /\ UNCHANGED <<requests, renderer, code, variables, locals, functions, output, status, exc>>

\* chain loop, `nxt == "else {"`: the block runs unless a branch was taken,
\* and the loop breaks
ElseStep ==
  /\ InChain
  /\ Top.i <= Len(Top.lines)
  /\ Line.k = "else"
  /\ ~TooDeep
  /\ LET pb == parse_block(Top.lines, Top.i + 1)
     IN IF ~Top.taken
        THEN stack' = Nested([Top EXCEPT !.j = pb.j], "elsebody", pb.block, Top.env)
        ELSE stack' = SetTop([Top EXCEPT !.pc = "stmt", !.i = pb.j + 1])
  /\ obs' = Opened(Ran(obs, Line), parse_block(Top.lines, Top.i + 1), Line)
  /\ UNCHANGED <<requests, renderer, code, variables, locals, functions, output, status, exc>>

\* the else body returned: i = j3 + 1; break
ElseEnd ==
  /\ Returning("elsebody")
  /\ stack' = [Pop(stack) EXCEPT ![Len(stack) - 1] =
                 [Below EXCEPT !.pc = "stmt", !.i = Below.j + 1]]
  /\ UNCHANGED <<requests, renderer, code, variables, locals, functions, output, status, exc, obs>>

\* chain loop: the lines are exhausted, or the next line is neither
\* `else if ... {` nor `else {`: back to the statement loop
ChainEnd ==
  /\ InChain
  /\ IF Top.i > Len(Top.lines) THEN TRUE ELSE Line.k \notin {"elseif", "else"}
  /\ stack' = SetTop([Top EXCEPT !.pc = "stmt"])
  /\ UNCHANGED <<requests, renderer, code, variables, locals, functions, output, status, exc, obs>>

\* repeat <count> {: cnt = int(eval_expr(count)), which may raise; then the
\* block is cut out and run cnt times
RepeatStmt ==
  /\ At({"repeat"})
  /\ ~TooDeep
  /\ LET cnt == PyInt(eval_expr(Line.e))
         pb == parse_block(Top.lines, Top.i + 1)
     IN IF ~cnt.ok
        THEN /\ exc' = PyError(cnt.err)
             /\ obs' = Raised(Counted(Evaluated(Ran(obs, Line), Line.e, Top), Line.e, Top),
                            PyError(cnt.err))
             /\ UNCHANGED stack
        ELSE /\ IF cnt.n > 0
                THEN stack' = Nested([Top EXCEPT !.j = pb.j, !.block = pb.block,
                                                 !.cnt = cnt.n, !.iters = 1],
                                     "repeat", pb.block, Top.env)
                ELSE stack' = SetTop([Step(Top) EXCEPT !.i = pb.j + 1, !.cnt = cnt.n,
                                                       !.iters = 0])
             /\ obs' = Opened(Counted(Evaluated(Ran(obs, Line), Line.e, Top), Line.e, Top),
                            pb, Line)
             /\ UNCHANGED exc
  /\ UNCHANGED <<requests, renderer, code, variables, locals, functions, output, status>>

\* one pass of `for _ in range(cnt)` returned: the next pass, or i = j + 1
RepeatEnd ==
  /\ Returning("repeat")
  /\ IF Below.iters < Below.cnt
     THEN stack' = [stack EXCEPT ![Len(stack) - 1] = [Below EXCEPT !.iters = @ + 1],
                                 ![Len(stack)] = Frame(Below.block, Below.env)]
     ELSE stack' = [Pop(stack) EXCEPT ![Len(stack) - 1] =
                      [Below EXCEPT !.pc = "stmt", !.i = Below.j + 1]]
  /\ UNCHANGED <<requests, renderer, code, variables, locals, functions, output, status, exc, obs>>

\* function <name> (<params>) {: registers (params, body); the body is not run
FunctionStmt ==
  /\ At({"function"})
  /\ LET pb == parse_block(Top.lines, Top.i + 1)
     IN /\ functions' = Bind(functions, Line.f, [params |-> Line.params, body |-> pb.block])
        /\ stack' = SetTop([Step(Top) EXCEPT !.i = pb.j + 1])
  /\ obs' = Opened(Ran(obs, Line), parse_block(Top.lines, Top.i + 1), Line)
  /\ UNCHANGED <<requests, renderer, code, variables, locals, output, status, exc>>

\* return <expr>: raise _JamReturn(eval_expr(expr))
ReturnStmt ==
  /\ At({"return"})
  /\ exc' = JamReturn(eval_expr(Line.e))
  /\ obs' = Raised(Evaluated(Ran(obs, Line), Line.e, Top), JamReturn(eval_expr(Line.e)))
  /\ UNCHANGED <<requests, renderer, code, stack, variables, locals, functions, output, status>>

\* the dictionary a call runs its body against: local = dict(variables), then
\* local[param] = eval_expr(arg) for the zipped parameters and arguments
RECURSIVE BindParams(_, _, _)
BindParams(d, params, args) ==
  IF params = <<>> \/ args = <<>> THEN d
  ELSE BindParams(Bind(d, Head(params), eval_expr(Head(args))), Tail(params), Tail(args))

\* the alternative without the copy: the body runs against the caller's own dictionary
CalleeEnvShared == Top.env
\* the environment of the body: the fresh `local`, not `variables`
CalleeEnv == Len(locals) + 1

\* the alternative handler: a bare `except`
CallCatchesAll(e) == TRUE
\* `except _JamReturn as r` around the body's run_lines
CallCatches(e) == e.kind = "return"

\* call <name>(<args>): a known function runs its body against `local`; any
\* other name is looked up in variables and called if callable, which no
\* value of the model is
CallStmt ==
  /\ At({"call"})
  /\ ~TooDeep
  /\ IF Line.f \in DOMAIN functions
     THEN /\ locals' = Append(locals, BindParams(variables, functions[Line.f].params, Line.args))
          /\ stack' = Nested([Top EXCEPT !.snap = EnvOf(Top)], "call",
                             functions[Line.f].body, CalleeEnv)
          /\ obs' = Ran(obs, Line)
     ELSE /\ stack' = SetTop(Step(Top))
          /\ obs' = Unknown(Ran(obs, Line))
          /\ UNCHANGED locals
  /\ UNCHANGED <<requests, renderer, code, variables, functions, output, status, exc>>

\* the body ran to its end: variables["last_return"] = None, then i += 1
CallEnd ==
  /\ Returning("call")
  /\ variables' = Bind(variables, "last_return", NoneV)
  /\ locals' = Pop(locals)
  /\ stack' = [Pop(stack) EXCEPT ![Len(stack) - 1] =
                 [Below EXCEPT !.pc = "stmt", !.i = @ + 1, !.post = "end"]]
  /\ UNCHANGED <<requests, renderer, code, functions, output, status, exc, obs>>

(***************************************************************************)
(* Exceptions.  An exception leaves the innermost activation; the handler  *)
(* waiting below it either catches it (the call handler's                  *)
(* `except _JamReturn`) or lets it through, down to run_jam_code.          *)
(***************************************************************************)
\* the call handler catches the exception leaving the body:
\* variables["last_return"] = r.value, then i += 1
CallCatch ==
  /\ status = "running"
  /\ exc.kind # "none"
  /\ Len(stack) >= 2
  /\ Below.pc = "call"
  /\ CallCatches(exc)
  /\ variables' = Bind(variables, "last_return", exc.v)
  /\ locals' = Pop(locals)
  /\ stack' = [Pop(stack) EXCEPT ![Len(stack) - 1] =
                 [Below EXCEPT !.pc = "stmt", !.i = @ + 1, !.post = "return"]]
  /\ exc' = NoExc
  /\ UNCHANGED <<requests, renderer, code, functions, output, status, obs>>

\* a handler that would run a nested run_lines, with the stack at the
\* interpreter's limit: RecursionError is raised in it
RecursionStmt ==
  /\ status = "running"
  /\ exc.kind = "none"
  /\ stack # <<>>
  /\ Top.i <= Len(Top.lines)
  /\ \/ Top.pc = "stmt" /\ Line.k \in {"if", "repeat", "call"}
     \/ Top.pc = "chain" /\ Line.k \in {"elseif", "else"}
  /\ TooDeep
  /\ exc' = RecursionError
  /\ obs' = Raised(Ran(obs, Line), RecursionError)
  /\ UNCHANGED <<requests, renderer, code, stack, variables, locals, functions, output, status>>

\* the alternative in which an exception never leaves the activation that raised it
PropagateNever == FALSE /\ UNCHANGED vars
\* the exception leaves an activation whose caller does not catch it
Propagate ==
  /\ status = "running"
  /\ exc.kind # "none"
  /\ Len(stack) >= 2
  /\ ~(Below.pc = "call" /\ CallCatches(exc))
  /\ stack' = Pop(stack)
  /\ locals' = IF Below.pc = "call" THEN Pop(locals) ELSE locals
  /\ UNCHANGED <<requests, renderer, code, variables, functions, output, status, exc, obs>>

\* run_jam_code: `except Exception as ex: print(f"Unexpected Error: {ex}")`,
\* then stdout is restored and the captured text returned
RunExcept ==
  /\ status = "running"
  /\ exc.kind # "none"
  /\ Len(stack) = 1
  /\ output' = Append(output, "Unexpected Error: " \o exc.msg)
  /\ stack' = <<>>
  /\ exc' = NoExc
  /\ status' = "returned"
  /\ obs' = [obs EXCEPT !.end = "aborted"]
  /\ UNCHANGED <<requests, renderer, code, variables, locals, functions>>

\* run_lines(all_lines, 0, None) returned: stdout is restored and the
\* captured text returned
RunReturn ==
  /\ status = "running"
  /\ exc.kind = "none"
  /\ Len(stack) = 1
  /\ Top.pc = "stmt"
  /\ Top.i > Len(Top.lines)
  /\ stack' = <<>>
  /\ status' = "returned"
  /\ obs' = [obs EXCEPT !.end = "consumed"]
  /\ UNCHANGED <<requests, renderer, code, variables, locals, functions, output, exc>>

(***************************************************************************)
(* The programs the model runs.                                            *)
(***************************************************************************)
\* the closing brace of a block followed by the next header of the chain:
\* on one line (`} else {`), or on two with a blank line between
Joint(same, header, joined) == IF same THEN <<joined>> ELSE <<Close, Blank, header>>

\* set x = X, then a chain of 1, 2 or 3 branches on x, then maybe a print
CondProg(x, same, shape, tail) ==
  <<Comment, SetL("x", EInt(x)), If(EGt("x", 3)), PrintL(EStr("big"))>>
  \o (IF shape = 3
      THEN Joint(same, ElseIf(EGt("x", 1)), CloseElseIf(EGt("x", 1))) \o <<PrintL(EStr("mid"))>>
      ELSE <<>>)
  \o (IF shape >= 2 THEN Joint(same, Else, CloseElse) \o <<PrintL(EStr("small"))>> ELSE <<>>)
  \o <<Close>>
  \o (IF tail THEN <<PrintL(EStr("after"))>> ELSE <<>>)

CondProgs ==
  {CondProg(x, same, shape, tail) :
     x \in 0..MaxX, same \in BOOLEAN, shape \in 1..3, tail \in BOOLEAN}

\* the example of the specification: CondProg(5, TRUE, 2, FALSE) without
\* the comment line
BigSmall ==
  <<SetL("x", EInt(5)), If(EGt("x", 3)), PrintL(EStr("big")), CloseElse,
    PrintL(EStr("small")), Close>>

\* a function f(n) that binds names and returns (or not), called directly or
\* through a function g
RetExprs == {EInt(9), EName("n"), EName("y"), EName("x")}
CallProg(global, ret, e, nested, via) ==
  (IF global THEN <<SetL("n", EInt(7))>> ELSE <<>>)
  \o <<SetL("x", EInt(1)), Function("f", <<"n">>), SetL("y", EInt(3)), SetL("x", EInt(2)),
       PrintL(EName("n"))>>
  \o (IF ~ret THEN <<>>
      ELSE IF nested
      THEN <<Repeat(EInt(2)), If(EBool(TRUE)), ReturnL(e), Close, PrintL(EStr("in")), Close>>
      ELSE <<ReturnL(e)>>)
  \o <<PrintL(EStr("no")), Close>>
  \o (IF via
      THEN <<Function("g", <<>>), SetL("z", EInt(1)), CallL("f", <<EInt(4)>>),
             PrintL(EStr("g")), Close, CallL("g", <<>>)>>
      ELSE <<CallL("f", <<EInt(4)>>)>>)
  \o <<PrintL(EName("last_return")), PrintL(EName("x")), PrintL(EName("y"))>>

CallProgs ==
  {CallProg(global, ret, e, nested, via) :
     global \in BOOLEAN, ret \in BOOLEAN, e \in RetExprs, nested \in BOOLEAN, via \in BOOLEAN}

\* the counts a repeat is given: integers, a variable, and non-integers
IntCounts == {EInt(k) : k \in 0..MaxCount} \cup {EName("c")}
OtherCounts ==
  {EFloat(2, "2.5"), EBool(TRUE), EStr("3"), EStr("q"), EList("[1]"), EName("u")}

\* a loop at top level that rebinds its count variable and accumulates in t
RepeatProg(e) ==
  <<PrintL(EStr("a")), SetL("c", EInt(2)), SetL("t", EInt(0)), Repeat(e),
    SetL("c", EInt(5)), AddL(EName("t"), EInt(1), "t"), PrintL(EStr("x")), Close,
    PrintL(EName("t")), PrintL(EStr("b"))>>

\* the same loop in the body of a function f(k) called with k = 2
RepeatInFunction(e) ==
  <<SetL("c", EInt(2)), Function("f", <<"k">>), SetL("t", EInt(0)), Repeat(e),
    AddL(EName("t"), EInt(1), "t"), PrintL(EStr("x")), Close, ReturnL(EName("t")), Close,
    CallL("f", <<EInt(2)>>), PrintL(EName("last_return"))>>

RepeatProgs ==
  {RepeatProg(e) : e \in IntCounts \cup OtherCounts}
  \cup {RepeatInFunction(e) : e \in {EInt(2), EName("c"), EName("k")}}

\* a call of a name that is no function
UnknownCall == <<PrintL(EStr("a")), CallL("nope", <<>>), PrintL(EStr("b"))>>

\* blocks the text ends without closing
OpenIf(b) == <<PrintL(EStr("a")), If(EBool(b)), PrintL(EStr("x")), PrintL(EStr("b"))>>
OpenRepeat == <<PrintL(EStr("a")), Repeat(EInt(2)), PrintL(EStr("x"))>>
OpenFunction == <<PrintL(EStr("a")), Function("f", <<>>), PrintL(EStr("x"))>>
\* a function closed in the text, for comparison
ClosedFunction == <<PrintL(EStr("a")), Function("f", <<>>), PrintL(EStr("x")), Close>>

\* a statement that raises: at top level, in a loop, in a function
Failing == AddL(EStr("s"), EInt(1), "z")
FailProgs ==
  {<<PrintL(EStr("a")), Failing, PrintL(EStr("b"))>>,
   <<PrintL(EStr("a")), Repeat(EInt(2)), PrintL(EStr("x")), Failing, Close, PrintL(EStr("b"))>>,
   <<Function("f", <<>>), PrintL(EStr("x")), If(EBool(TRUE)), Failing, Close,
     PrintL(EStr("no")), Close, PrintL(EStr("a")), CallL("f", <<>>), PrintL(EStr("b"))>>,
   <<PrintL(EStr("a")), ReturnL(EInt(5)), PrintL(EStr("b"))>>}

\* a name the identifier diagnostics reject
BadName == <<SetL("i", EInt(0)), PrintL(EName("i"))>>

\* names given to `set`: rejected with severity Error, with severity
\* Concept, and accepted
ErrorNames == {"", "{x", "a-b", "2x", "return", "print"}
ConceptNames == {"password", "myPassword", "i"}
\* set <name> = 5 between other statements, at top level or in a function
NameProg(name, infn) ==
  LET body == <<SetL("x", EInt(1)), SetL(name, EInt(5)), PrintL(EName("x")),
                SetL("y", EName(IF name = "" THEN "x" ELSE name))>>
  IN IF infn
     THEN <<Function("f", <<>>)>> \o body \o <<Close, CallL("f", <<>>), PrintL(EStr("b"))>>
     ELSE body \o <<PrintL(EName("y"))>>
NameProgs ==
  {NameProg(name, infn) : name \in ErrorNames \cup ConceptNames \cup {"z"}, infn \in BOOLEAN}

\* add 1 and 2 into <name>
AddInto(name) == <<AddL(EInt(1), EInt(2), name), PrintL(EName(name))>>

\* choose from <options> into x: no, one, two options
ChooseProg(opts) ==
  <<PrintL(EStr("a")), Choose(opts, "x"), PrintL(EName("x")), PrintL(EStr("b"))>>
ChooseProgs ==
  {ChooseProg(opts) : opts \in {<<>>, <<EInt(1)>>, <<EStr("a"), EStr("b")>>,
                                 <<EBool(TRUE), EInt(2)>>}}

\* literals of the four kinds `set` is given: boolean, quoted text, integer,
\* list
Literals == {EBool(FALSE), EStr("a"), EInt(7), EList("[1, 2]")}
\* identifiers of the form [A-Za-z_][A-Za-z0-9_]* that are no reserved word
SetNames == {"x", "y", "myPassword"}
\* two statements `set v = <literal>`
SetSeqs ==
  {<<SetL(v, e), SetL(w, f)>> : v \in SetNames, w \in SetNames, e \in Literals, f \in Literals}

\* a function that calls itself, two functions that call each other, and a
\* function that calls itself from a loop
SelfRec ==
  <<Function("f", <<>>), PrintL(EStr("x")), CallL("f", <<>>), PrintL(EStr("no")), Close,
    CallL("f", <<>>), PrintL(EStr("b"))>>
MutualRec ==
  <<Function("f", <<>>), CallL("g", <<>>), Close, Function("g", <<>>), PrintL(EStr("g")),
    CallL("f", <<>>), Close, CallL("f", <<>>), PrintL(EStr("b"))>>
LoopRec ==
  <<Function("f", <<>>), Repeat(EInt(2)), PrintL(EStr("x")), CallL("f", <<>>), Close, Close,
    CallL("f", <<>>), PrintL(EStr("b"))>>
RecProgs == {SelfRec, MutualRec, LoopRec}

\* blocks with blank lines, comments and a nested block inside
Blocky(c) ==
  <<If(EBool(c)), Comment, PrintL(EStr("a")), Blank, Repeat(EInt(1)), Comment,
    PrintL(EStr("x")), Close, Blank, PrintL(EStr("c")), Close, Else, Blank,
    If(EBool(TRUE)), PrintL(EStr("y")), Comment, Close, Close, PrintL(EStr("b"))>>

\* a variable whose name is spelled as the text e, then e evaluated
Spelled(e) ==
  <<SetL("x", EInt(1)), AddL(EInt(1), EInt(2), ExprText(e)), PrintL(e), SetL("y", e),
    PrintL(EName("y"))>>
SpelledProgs ==
  {Spelled(e) : e \in {EBool(TRUE), EStr("a"), EList("[1]"), EInt(7), EFloat(2, "2.5"),
                        EPlus("x", 1), EGt("x", 0), EName("z")}}

\* a call that returns a value, then a call that falls through, then a call
\* whose body makes a call that returns before it falls through itself
TwoCalls ==
  <<Function("f", <<>>), ReturnL(EInt(9)), Close, Function("h", <<>>), PrintL(EStr("h")), Close,
    Function("g", <<>>), CallL("f", <<>>), Close,
    CallL("f", <<>>), PrintL(EName("last_return")), CallL("h", <<>>),
    PrintL(EName("last_return")), CallL("f", <<>>), CallL("g", <<>>),
    PrintL(EName("last_return"))>>

\* a name nothing binds
Unbound == <<PrintL(EName("u")), SetL("x", EName("u")), PrintL(EName("x"))>>

Programs ==
  CondProgs \cup {BigSmall} \cup CallProgs \cup RepeatProgs \cup FailProgs \cup NameProgs
  \cup ChooseProgs \cup SetSeqs \cup RecProgs \cup {Blocky(TRUE), Blocky(FALSE)}
  \cup SpelledProgs \cup {TwoCalls}
  \cup {UnknownCall, OpenIf(TRUE), OpenIf(FALSE), OpenRepeat, OpenFunction, ClosedFunction,
        BadName, Unbound, AddInto("return"), AddInto("i"), AddInto("t")}

(***************************************************************************)
(* run_jam_code(code): the state when run_lines(all_lines, 0, None) starts *)
(***************************************************************************)
\* no request is being served
NoRequests ==
  /\ runs = <<>>
  /\ tables = <<>>
  /\ stdout = 0
  /\ buffers = <<>>

\* the generator is not in use
NoRenders ==
  /\ symbol_table = <<>>
  /\ type_warnings = <<>>
  /\ _anon_counter = 0
  /\ renders = <<>>

Init ==
  /\ NoRequests
  /\ NoRenders
  /\ code \in {Numbered(p) : p \in Programs}
  /\ stack = <<Frame(code, 0)>>
  /\ variables = EmptyDict
  /\ locals = <<>>
  /\ functions = [nm \in {} |-> [params |-> <<>>, body |-> <<>>]]
  /\ output = <<>>
  /\ status = "running"
  /\ exc = NoExc
  /\ obs = NoObs

Next ==
  \/ SkipLine
  \/ IfStmt
  \/ BranchEnd
  \/ ElseIfStep
  \/ ElseStep
  \/ ElseEnd
  \/ ChainEnd
  \/ RepeatStmt
  \/ RepeatEnd
  \/ SetStmt
  \/ PrintStmt
  \/ AddStmt
  \/ ChooseStmt
  \/ FunctionStmt
  \/ ReturnStmt
  \/ CallStmt
  \/ CallEnd
  \/ CloseBraceStmt
  \/ UnknownStmt
  \/ CallCatch
  \/ RecursionStmt
  \/ Propagate
  \/ RunExcept
  \/ RunReturn

Spec == Init /\ [][Next]_vars

\* run_jam_code runs on one thread that blocks nowhere: while the
\* interpreter has a step to take, it takes it
SpecLive == Spec /\ WF_vars(Next)

(***************************************************************************)
(* Requests: two calls of run_jam_code whose steps interleave, as two      *)
(* requests to the threaded /run endpoint do.  What a call keeps in local  *)
(* names (variables, functions, output, sys_stdout) is its own; sys.stdout *)
(* is the process's.                                                       *)
(*   runs     per call: its lines, the index of its next line, its phase   *)
(*            ("waiting", "running", "returned"), the sys.stdout it saved  *)
(*            in sys_stdout, and the text it returned                      *)
(*   tables   the (variables, functions) dictionaries, by the call that    *)
(*            created them                                                 *)
(*   stdout   what sys.stdout is: 0 the process's own stream, r the        *)
(*            StringIO `output` of call r                                  *)
(*   buffers  the lines written to each of these streams                   *)
(* The programs are straight-line at top level; a called body is a list of *)
(* print lines and is run within the step of its call.                     *)
(***************************************************************************)
Requests == 1..2

NoFunctions == [nm \in {} |-> [params |-> <<>>, body |-> <<>>]]
\* `variables = {}` and `functions = {}`
NoTables == [variables |-> EmptyDict, functions |-> NoFunctions]

\* the alternative with module-level dictionaries: one table for all calls
TableShared(r) == 1
\* `variables` and `functions` are local names of run_jam_code: every call
\* creates its own
TableOf(r) == r

\* what the print lines of a called body write: each evaluates against
\* `variables`
RECURSIVE BodyOut(_, _, _)
BodyOut(body, k, T) ==
  IF k > Len(body) THEN <<>>
  ELSE IF body[k].k = "print"
       THEN <<Str(EvalIn(body[k].e, T.variables))>> \o BodyOut(body, k + 1, T)
       ELSE BodyOut(body, k + 1, T)

\* one pass of the while loop of run_lines at top level, on line i, with the
\* dictionaries T: the dictionaries after it, the lines it prints, and the
\* index of the next line.  (The programs give `set` accepted names only.)
Exec(lines, i, T) ==
  LET l == lines[i]
      pb == parse_block(lines, i + 1)
  IN CASE l.k = "print" ->
            [T |-> T, out |-> <<Str(EvalIn(l.e, T.variables))>>, i |-> i + 1]
       [] l.k = "set" /\ ~SetSkips(validate_variable_name(l.v)) ->
            [T |-> [T EXCEPT !.variables = Bind(@, l.v, EvalIn(l.e, T.variables))],
             out |-> <<>>, i |-> i + 1]
       [] l.k = "function" ->
            [T |-> [T EXCEPT !.functions = Bind(@, l.f, [params |-> l.params, body |-> pb.block])],
             out |-> <<>>, i |-> pb.j + 1]
       [] l.k = "call" /\ l.f \in DOMAIN T.functions ->
            [T |-> [T EXCEPT !.variables = Bind(@, "last_return", NoneV)],
             out |-> BodyOut(T.functions[l.f].body, 1, T), i |-> i + 1]
       [] OTHER -> [T |-> T, out |-> <<>>, i |-> i + 1]

\* run_jam_code starts: output = io.StringIO(); sys_stdout = sys.stdout;
\* sys.stdout = output; variables = {}; functions = {}
ReqStart(r) ==
  /\ runs[r].phase = "waiting"
  /\ runs' = [runs EXCEPT ![r].phase = "running", ![r].saved = stdout]
  /\ stdout' = r
  /\ buffers' = [buffers EXCEPT ![r] = <<>>]
  /\ tables' = [tables EXCEPT ![TableOf(r)] = NoTables]
  /\ UNCHANGED <<evaluator, renderer>>

\* the call runs its next statement; print() writes to whatever sys.stdout is
ReqStatement(r) ==
  /\ runs[r].phase = "running"
  /\ runs[r].i <= Len(runs[r].code)
  /\ LET x == Exec(runs[r].code, runs[r].i, tables[TableOf(r)])
     IN /\ tables' = [tables EXCEPT ![TableOf(r)] = x.T]
        /\ buffers' = [buffers EXCEPT ![stdout] = @ \o x.out]
        /\ runs' = [runs EXCEPT ![r].i = x.i]
  /\ UNCHANGED <<stdout, evaluator, renderer>>

\* run_lines returned: sys.stdout = sys_stdout; return output.getvalue()
ReqFinish(r) ==
  /\ runs[r].phase = "running"
  /\ runs[r].i > Len(runs[r].code)
  /\ stdout' = runs[r].saved
  /\ runs' = [runs EXCEPT ![r].phase = "returned", ![r].result = buffers[r]]
  /\ UNCHANGED <<tables, buffers, evaluator, renderer>>

\* the programs of the requests: one binds x and defines f, one reads x
\* and calls f and binds y, one rebinds x
ReqProgs ==
  {<<SetL("x", EInt(1)), Function("f", <<>>), PrintL(EStr("one")), Close, PrintL(EName("x")),
     CallL("f", <<>>), PrintL(EName("y"))>>,
   <<PrintL(EName("x")), SetL("y", EInt(2)), CallL("f", <<>>), PrintL(EName("y")),
     PrintL(EName("x"))>>,
   <<SetL("x", EInt(3)), PrintL(EName("x"))>>}

\* the evaluator of Spec is not in use
NoEvaluator ==
  /\ code = <<>>
  /\ stack = <<>>
  /\ variables = EmptyDict
  /\ locals = <<>>
  /\ functions = NoFunctions
  /\ output = <<>>
  /\ status = "idle"
  /\ exc = NoExc
  /\ obs = NoObs

InitRequests ==
  /\ NoEvaluator
  /\ NoRenders
  /\ runs \in [Requests -> {[code |-> Numbered(p), i |-> 1, phase |-> "waiting", saved |-> 0,
                              result |-> <<>>] : p \in ReqProgs}]
  /\ tables = [r \in Requests |-> NoTables]
  /\ stdout = 0
  /\ buffers = [b \in {0} \cup Requests |-> <<>>]

NextRequests ==
  \E r \in Requests :
    \/ ReqStart(r)
    \/ ReqStatement(r)
    \/ ReqFinish(r)

SpecRequests == InitRequests /\ [][NextRequests]_vars

(***************************************************************************)
(* Properties.                                                             *)
(***************************************************************************)
\* output.getvalue(): every printed line followed by a newline
RECURSIVE Joined(_)
Joined(ls) == IF ls = <<>> THEN "" ELSE Head(ls) \o "\n" \o Joined(Tail(ls))
getvalue == Joined(output)

Printed(m) == \E k \in 1..Len(output) : output[k] = m

\* the branch of CondProg(x, _, shape, _) that is to run: the first whose
\* declared condition holds for x, else the else branch if there is one
Expected(x, shape) ==
  LET d == Bind(EmptyDict, "x", IntV(x))
  IN IF CondIn(EGt("x", 3), d) THEN {"big"}
     ELSE IF shape = 3 /\ CondIn(EGt("x", 1), d) THEN {"mid"}
     ELSE IF shape >= 2 THEN {"small"}
     ELSE {}

\* C1: in a conditional chain at most one branch body is executed, and it is
\* the body of the first branch, in declared order, whose condition is true;
\* with no true condition the else body runs if there is one, else none.
\* Stated on the chains of CondProg, whose bodies print big, mid, small.
C1_FirstTrueBranchOnly ==
  \A x \in 0..MaxX, same \in BOOLEAN, shape \in 1..3, tail \in BOOLEAN :
    code = Numbered(CondProg(x, same, shape, tail)) =>
      /\ Cardinality({m \in {"big", "mid", "small"} : Printed(m)}) <= 1
      /\ status = "returned" =>
           {m \in {"big", "mid", "small"} : Printed(m)} = Expected(x, shape)

\* C2: the six-line example (set x = 5 / if x > 3 { / print "big" / } else { /
\* print "small" / }) returns exactly "big" and a newline.
C2_BigSmallReturnsBig ==
  (code = Numbered(BigSmall) /\ status = "returned") => getvalue = "big\n"

\* C3: run_jam_code always returns a text: once a statement has failed, no
\* further statement is executed, what was printed before it stays as it
\* was, and the run ends with exactly one diagnostic line added.
C3_FailureKeepsOutputAddsOneLine ==
  /\ status = "returned" => (exc.kind = "none" /\ stack = <<>>)
  /\ obs.raised.fatal =>
       /\ Len(obs.trace) = obs.raised.n
       /\ IF exc.kind # "none"
          THEN status = "running" /\ output = obs.raised.out
          ELSE /\ status = "returned"
               /\ output = Append(obs.raised.out, "Unexpected Error: " \o obs.raised.msg)

\* C3 witness: a run that printed something, then failed inside a function or
\* loop before its last lines, and has returned.
C3_Witness ==
  /\ status = "returned"
  /\ obs.raised.fatal
  /\ obs.raised.kind = "error"
  /\ obs.raised.out # <<>>
  /\ \E k \in 1..Len(code) : code[k].k = "print" /\ \A t \in 1..Len(obs.trace) : obs.trace[t] # k
  /\ \E t \in 1..Len(obs.trace) : code[obs.trace[t]].k = "call"

\* two dictionaries agree on every name but last_return
SameButLastReturn(a, b) ==
  /\ DOMAIN a \ {"last_return"} = DOMAIN b \ {"last_return"}
  /\ \A nm \in DOMAIN a \ {"last_return"} : a[nm] = b[nm]

\* C4: while a call of a known function runs and when it has completed, by
\* fall-through or by return, the caller's dictionary binds every name other
\* than last_return as it did just before the call, and binds no new name.
C4_CallLeavesCallerBindings ==
  \A k \in 1..Len(stack) :
    (stack[k].pc = "call" \/ stack[k].post # "") =>
      SameButLastReturn(EnvOf(stack[k]), stack[k].snap)

\* C4 witness: a call has completed whose body rebound a name the caller
\* binds and bound a name the caller does not.
C4_Witness ==
  /\ stack # <<>>
  /\ Top.post # ""
  /\ \E w \in 1..Len(obs.writes) :
       obs.writes[w].env > Top.env /\ obs.writes[w].name \in DOMAIN Top.snap
  /\ \E w \in 1..Len(obs.writes) :
       obs.writes[w].env > Top.env /\ obs.writes[w].name \notin DOMAIN EnvOf(Top)

\* C5: an expression in the body of a called function evaluates to its value
\* in the callee's dictionary (the snapshot, the parameters, the body's own
\* assignments): a parameter name gives the argument passed.
C5_BodyEvaluatesInCalleeEnv ==
  obs.eval.env > 0 => obs.eval.got = obs.eval.want

\* C6: when a return runs in a called function's body, at any depth of
\* if/repeat blocks, no further statement of the body runs, execution resumes
\* after the call, and last_return holds the value of the return expression.
C6_ReturnEndsBodySetsLastReturn ==
  \A k \in 1..Len(stack) :
    stack[k].post = "return" =>
      /\ Len(obs.trace) = obs.raised.n
      /\ k = Len(stack)
      /\ stack[k].pc = "stmt"
      /\ stack[k].lines[stack[k].i - 1].k = "call"
      /\ "last_return" \in DOMAIN variables
      /\ variables["last_return"] = obs.eval.want

\* C7: a call of a name that is no defined function stops the run at that
\* statement: no later statement runs, and the output ends with a diagnostic.
C7_UnknownCallIsFatal ==
  obs.unknown > 0 =>
    /\ Len(obs.trace) = obs.unknown
    /\ exc.kind = "error" \/ status = "returned"
    /\ status = "returned" => obs.raised.fatal

\* C8: the count of a repeat is evaluated once, before the first pass, and
\* the body runs exactly that many times against the one dictionary, whatever
\* the body binds: the count is the value of the count expression where the
\* loop stands.
C8_RepeatRunsCountTimes ==
  /\ (obs.rep.n > 0 /\ obs.rep.want.ok) => obs.rep.got = obs.rep.want
  /\ \A k \in 1..Len(stack) :
       IF stack[k].pc = "repeat"
       THEN stack[k].iters >= 1 /\ stack[k].iters <= stack[k].cnt
       ELSE stack[k].iters = (IF stack[k].cnt > 0 THEN stack[k].cnt ELSE 0)

\* C9: a repeat whose count evaluates to a Float, Boolean, Text or List
\* fails: its body runs zero times and the run stops with a diagnostic.
C9_NonIntegerCountFails ==
  (obs.rep.n > 0 /\ obs.rep.val.k \in {"float", "bool", "text", "list"}) =>
    /\ Len(obs.trace) = obs.rep.n
    /\ exc.kind = "error" \/ (status = "returned" /\ obs.raised.fatal)

\* C10: when parse_block reaches the end of the lines without the closing
\* brace it fails, so the unterminated if / repeat body is not run and the
\* unterminated function body is not registered.
C10_UnterminatedBlockFails ==
  obs.open.n > 0 =>
    /\ Len(obs.trace) = obs.open.n
    /\ exc.kind = "error" \/ (status = "returned" /\ obs.raised.fatal)
    /\ obs.open.k = "function" => obs.open.f \notin DOMAIN functions

\* C11: an expression that is no literal, no bound name and no resolvable
\* arithmetic or comparison makes the statement evaluating it fail: the
\* evaluator does not hand back the expression's own text as a Text value.
C11_UnresolvedExpressionFails ==
  (obs.eval.raw /\ Len(obs.trace) = obs.eval.n) =>
    /\ exc.kind = "error" \/ (status = "returned" /\ obs.raised.fatal)
    /\ obs.raised.n = obs.eval.n

\* the dictionary the diagnosed `set` line ran against
DiagEnv == IF obs.diag.env = 0 THEN variables ELSE locals[obs.diag.env]

\* C12: when the name of a `set` line raises a diagnostic of severity Error,
\* the diagnostic is written to the output, no dictionary is changed by the
\* line, nothing is raised, and the next statement of the block runs next.
C12_ErrorDiagnosticSkipsAssignment ==
  obs.diag.d.severity = "Error" =>
    /\ Len(obs.trace) = obs.diag.n =>
         /\ variables = obs.diag.vars
         /\ locals = obs.diag.locs
         /\ exc.kind = "none"
         /\ \E sg \in obs.diag.d.suggestions :
              output = obs.diag.out
                         \o format_n_show_error(obs.diag.d, sg, obs.diag.line, obs.diag.text)
         /\ obs.diag.next # 0 => status = "running"
    /\ (Len(obs.trace) > obs.diag.n /\ obs.diag.next # 0) =>
         obs.trace[obs.diag.n + 1] = obs.diag.next

\* C12 witness: a reserved word was given to `set` in a function body, the
\* diagnostic was shown, and the run went on to its end.
C12_Witness ==
  /\ obs.diag.d.severity = "Error"
  /\ obs.diag.name = "return"
  /\ obs.diag.env > 0
  /\ Len(obs.trace) > obs.diag.n + 1
  /\ status = "returned"
  /\ Printed("Error: 'return' is a reserved keyword. (line 2)")

\* C13: when the name of a `set` line raises only a diagnostic of severity
\* Concept, the diagnostic is shown and the assignment still happens: the
\* name is bound to the value of the expression.
C13_ConceptDiagnosticStillAssigns ==
  (obs.diag.d.severity = "Concept" /\ Len(obs.trace) = obs.diag.n
     /\ obs.diag.env <= Len(locals)) =>
    /\ obs.diag.name \in DOMAIN DiagEnv
    /\ DiagEnv[obs.diag.name] = obs.diag.val

\* C14: every statement that binds a name runs the identifier diagnostics on
\* it first: no name the diagnostics reject for `set` is ever bound.
C14_EveryBindingIsValidated ==
  \A w \in 1..Len(obs.writes) : ~validate_variable_name(obs.writes[w].name).raised

(***************************************************************************)
(* The generator: jam_to_js of src/Archives/jam(v1.1.0).py, called several *)
(* times in one process.                                                   *)
(*   symbol_table   the module's name -> type dictionary                   *)
(*   type_warnings  the module's list of warnings                          *)
(*   _anon_counter  the module's counter of generated function names       *)
(*   renders        per top-level call: its source, the lines of the text  *)
(*                  it returned, the warnings check_assignment appended    *)
(*                  while it ran, and _anon_counter as it was at its start *)
(* A line of the text is [ind, s]: s after ind spaces.  The sources use    *)
(* the line shapes of the evaluator, without `add`.                        *)
(***************************************************************************)
\* top-level calls of jam_to_js in one process
MaxRenders == 2

Js(s) == [ind |-> 0, s |-> s]
\* _indent_block: two spaces before every line that is not empty
_indent_block(js) ==
  [k \in 1..Len(js) |-> IF js[k].s = "" THEN js[k] ELSE [js[k] EXCEPT !.ind = @ + 2]]

RECURSIVE Pad(_)
Pad(n) == IF n <= 0 THEN "" ELSE " " \o Pad(n - 1)
\* the lines of "\n".join(js)
Text(js) == [k \in 1..Len(js) |-> Pad(js[k].ind) \o js[k].s]

\* infer_type(value): the name of the type, "" for None
infer_type(e, table) ==
  CASE e.t \in {"int", "float", "bool", "str", "list"} -> e.t
    [] e.t = "name" /\ e.s \in DOMAIN table -> table[e.s]
    [] OTHER -> ""

\* check_assignment(var, value) on the state st of a call
check_assignment(var, e, st) ==
  LET val_t == infer_type(e, st.symbol_table)
      w == "Type mismatch for '" \o var \o "': previously " \o st.symbol_table[var]
           \o ", now " \o val_t
  IN IF var \in DOMAIN st.symbol_table
     THEN IF val_t # "" /\ st.symbol_table[var] # val_t
          THEN [st EXCEPT !.type_warnings = Append(@, w), !.drifts = Append(@, w)]
          ELSE st
     ELSE [st EXCEPT !.symbol_table = Bind(@, var, IF val_t # "" THEN val_t ELSE "str")]

\* _collect_until_brace(lines, start): as parse_block
_collect_until_brace(lines, start) == ParseFrom(lines, start, 0, <<>>)
_skip_blank_comments(lines, i) == _skip_blank(lines, i)

RECURSIVE Commas(_)
Commas(ws) ==
  IF ws = <<>> THEN "" ELSE IF Len(ws) = 1 THEN ws[1] ELSE ws[1] \o ", " \o Commas(Tail(ws))

\* the source text of a line
LineText(l) ==
  CASE l.k = "closeelse" -> "} else {"
    [] l.k = "closeelseif" -> "} else if " \o ExprText(l.e) \o " {"
    [] l.k = "close" -> "}"
    [] OTHER -> ""

\* the line that opens the rendering of a block header
Opener(l, name) ==
  CASE l.k = "if" -> "if (" \o ExprText(l.e) \o ") {"
    [] l.k = "elseif" -> "else if (" \o ExprText(l.e) \o ") {"
    [] l.k = "else" -> "else {"
    [] l.k = "repeat" -> "for (let i = 0; i < " \o ExprText(l.e) \o "; i++) {"
    [] OTHER -> "function " \o name \o "(" \o Commas(l.params) \o ") {"

\* the `/* Type Warnings:` block appended for a non-empty list
WarningBlock(ws) ==
  IF ws = <<>> THEN <<>>
  ELSE <<Js(""), Js("/* Type Warnings:")>> \o [k \in 1..Len(ws) |-> Js("   - " \o ws[k])]
       \o <<Js("*/")>>

\* print <content>: content not starting with a quote is wrapped in quotes
PrintContent(e) == IF e.t = "str" THEN ExprText(e) ELSE "\"" \o ExprText(e) \o "\""

RECURSIVE jam_to_js(_, _)
RECURSIVE JsLines(_, _, _)
RECURSIVE JsChain(_, _, _)

\* a block header at line i: its opener, the block collected after it and
\* rendered by a nested jam_to_js, indented, then "}"; j is where the block
\* stopped
JsBlock(lines, i, st) ==
  LET l == lines[i]
      anon == l.k = "function" /\ l.f = ""
      counter == IF anon THEN st.anon + 1 ELSE st.anon
      name == IF anon THEN "_anon_" \o ToString(counter) ELSE l.f
      pb == _collect_until_brace(lines, i + 1)
      r == jam_to_js(pb.block, [st EXCEPT !.anon = counter])
  IN [st |-> [r EXCEPT !.js = (Append(st.js, Js(Opener(l, name))) \o _indent_block(r.js))
                              \o <<Js("}")>>],
      j |-> pb.j]

\* the else-chain loop of the `if` handler; `else {` does not end it
JsChain(lines, i, st) ==
  IF i <= Len(lines) /\ lines[i].k \in {"elseif", "else"}
  THEN JsChain(lines, _skip_blank_comments(lines, JsBlock(lines, i, st).j + 1),
               JsBlock(lines, i, st).st)
  ELSE JsLines(lines, i, st)

\* the while loop of jam_to_js from line i
JsLines(lines, i, st) ==
  IF i > Len(lines) THEN st
  ELSE LET l == lines[i]
       IN CASE IsSkipped(l) -> JsLines(lines, i + 1, st)
            [] l.k = "if" ->
                 JsChain(lines, _skip_blank_comments(lines, JsBlock(lines, i, st).j + 1),
                         JsBlock(lines, i, st).st)
            [] l.k \in {"elseif", "else", "function", "repeat"} ->
                 JsLines(lines, JsBlock(lines, i, st).j + 1, JsBlock(lines, i, st).st)
            [] l.k = "set" ->
                 JsLines(lines, i + 1,
                         [check_assignment(l.v, l.e, st) EXCEPT
                            !.js = Append(@, Js("let " \o l.v \o " = " \o ExprText(l.e) \o ";"))])
            [] l.k = "return" ->
                 JsLines(lines, i + 1,
                         [st EXCEPT !.js = Append(@, Js("return " \o ExprText(l.e) \o ";"))])
            [] l.k = "print" ->
                 JsLines(lines, i + 1,
                         [st EXCEPT !.js = Append(@, Js("console.log(" \o PrintContent(l.e) \o ");"))])
            [] l.k = "call" ->
                 JsLines(lines, i + 1,
                         [st EXCEPT !.js = Append(@, Js(l.f \o "("
                                                       \o Commas([k \in 1..Len(l.args) |->
                                                                    ExprText(l.args[k])])
                                                       \o ");"))])
            [] OTHER ->
                 JsLines(lines, i + 1, [st EXCEPT !.js = Append(@, Js(LineText(l)))])

\* jam_to_js(jam_code) on the module state of st: type_warnings.clear(), the
\* loop, then the warnings block and type_warnings.clear() again
jam_to_js(lines, st) ==
  LET r == JsLines(lines, 1, [st EXCEPT !.js = <<>>, !.type_warnings = <<>>])
  IN [r EXCEPT !.js = @ \o WarningBlock(r.type_warnings), !.type_warnings = <<>>]

\* the sources given to jam_to_js
JsProgs ==
  {<<SetL("x", EInt(10))>>,
   <<SetL("x", EStr1("Hello"))>>,
   <<PrintL(EName("x"))>>,
   <<PrintL(EInt(42))>>,
   <<PrintL(EStr1("Hello"))>>,
   <<Function("", <<>>), PrintL(EStr("k")), Close>>,
   <<Function("f", <<"a">>), ReturnL(EName("a")), Close, CallL("f", <<EInt(4)>>)>>,
   <<SetL("y", EInt(1)), SetL("y", EStr("a")), If(EGt("y", 1)), PrintL(EStr("k")), Close,
     PrintL(EStr("z"))>>,
   <<SetL("q", EInt(1)), Repeat(EInt(2)), SetL("q", EStr("a")), PrintL(EStr("in")), Close,
     SetL("q", EBool(TRUE)), PrintL(EStr("z"))>>,
   <<SetL("w", EInt(1)), SetL("w", EStr("a"))>>,
   <<SetL("v", EInt(10)), SetL("v", EStr1("a")), SetL("v", EInt(2))>>,
   BigSmall}

\* a top-level call jam_to_js(src)
Render(src) ==
  /\ Len(renders) < MaxRenders
  /\ LET r == jam_to_js(Numbered(src),
                        [js |-> <<>>, symbol_table |-> symbol_table,
                         type_warnings |-> type_warnings, anon |-> _anon_counter,
                         drifts |-> <<>>])
     IN /\ symbol_table' = r.symbol_table
        /\ type_warnings' = r.type_warnings
        /\ _anon_counter' = r.anon
        /\ renders' = Append(renders, [src |-> src, js |-> r.js, drifts |-> r.drifts,
                                       counter |-> _anon_counter])
  /\ UNCHANGED <<evaluator, requests>>

InitRender ==
  /\ NoEvaluator
  /\ NoRequests
  /\ NoRenders

NextRender == \E src \in JsProgs : Render(src)

SpecRender == InitRender /\ [][NextRender]_vars

\* the dictionaries of a call that ran its lines alone up to line `upto`
RECURSIVE Walk(_, _, _, _)
Walk(lines, i, T, upto) ==
  IF i >= upto \/ i > Len(lines) THEN T
  ELSE Walk(lines, Exec(lines, i, T).i, Exec(lines, i, T).T, upto)

\* C15: of two calls of run_jam_code, one after the other or interleaved,
\* each starts with empty variable and function tables and at every step
\* holds in them exactly what its own statements put there: nothing the
\* other call bound or defined can be read or called.
C15_RunsHaveOwnTables ==
  \A r \in DOMAIN runs :
    runs[r].phase # "waiting" =>
      tables[TableOf(r)] = Walk(runs[r].code, 1, NoTables, runs[r].i)

\* C15 witness: while the first call, which bound x and defined f, is still
\* running, the second has printed x and called f and found neither.
C15_Witness ==
  /\ runs # <<>>
  /\ runs[1].phase = "running"
  /\ runs[2].phase = "running"
  /\ "x" \in DOMAIN tables[1].variables
  /\ "f" \in DOMAIN tables[1].functions
  /\ runs[2].code[1].k = "print"
  /\ runs[2].i > 3
  /\ "x" \notin DOMAIN tables[2].variables
  /\ "f" \notin DOMAIN tables[2].functions
  /\ runs[1].saved = 0
  /\ runs[2].saved = 1

\* C16: the output is the lines of the executed statements in execution
\* order: every executed print of a single literal or of a bound variable
\* adds exactly one line, holding that value, after the lines before it, and
\* a run in which only prints wrote has as many lines as prints it executed.
C16_EveryPrintIsOneLine ==
  /\ \A k \in 1..Len(obs.prints) :
       /\ obs.prints[k].at <= Len(output)
       /\ k > 1 => obs.prints[k - 1].at < obs.prints[k].at
       /\ obs.prints[k].simple => output[obs.prints[k].at] = obs.prints[k].want
  /\ (obs.diag.n = 0 /\ ~obs.raised.fatal) => Len(output) = Len(obs.prints)

\* C17: the generator renders `print <content>` as the one line
\* console.log(<content>); with the content text unchanged, be it a quoted
\* text, a number or a variable name, and adds no other line for it.
C17_PrintRendersContentUnchanged ==
  \A k \in 1..Len(renders) :
    (Len(renders[k].src) = 1 /\ renders[k].src[1].k = "print") =>
      Text(renders[k].js) = <<"console.log(" \o ExprText(renders[k].src[1].e) \o ");">>

\* the module state of a process in which jam_to_js was never called, but
\* for the counter of generated names
Unused(counter) ==
  [js |-> <<>>, symbol_table |-> <<>>, type_warnings |-> <<>>, anon |-> counter,
   drifts |-> <<>>]

\* C18: the type recorded for a variable during one call of jam_to_js never
\* affects a later call: every call returns the text it returns when no
\* call came before it (set x = 'Hello' gives let x = 'Hello'; and no type
\* warning, also after a rendering of set x = 10).
C18_TypesAreScopedToOneRender ==
  \A k \in 1..Len(renders) :
    renders[k].js = jam_to_js(Numbered(renders[k].src), Unused(renders[k].counter)).js

\* C19: jam_to_js is a function of its input: the same source rendered
\* twice in one process, a source defining a function with no name
\* included, gives the same text both times.
C19_SameSourceSameText ==
  \A i, j \in 1..Len(renders) :
    renders[i].src = renders[j].src => Text(renders[i].js) = Text(renders[j].js)

\* C20: every type-drift warning recorded while a top-level call renders
\* its program, before or inside nested blocks included, stands exactly once
\* in one Type Warnings block after the last rendered statement; no line of
\* such a block stands among the statements; without warnings, no block.
C20_WarningsTrailTheStatements ==
  \A k \in 1..Len(renders) :
    LET js == renders[k].js
        block == WarningBlock(renders[k].drifts)
        body == Len(js) - Len(block)
    IN /\ body >= 0
       /\ SubSeq(js, body + 1, Len(js)) = block
       /\ \A b \in 1..body : js[b].s # "/* Type Warnings:"

\* C21: `choose from <options> into x` with options never fails and binds x
\* to the value of one of them; with no option it fails with a diagnostic
\* and x is not bound.
C21_ChooseBindsAnOption ==
  (obs.choose.n > 0 /\ Len(obs.trace) = obs.choose.n /\ obs.choose.env = 0) =>
    IF obs.choose.opts # <<>>
    THEN /\ exc.kind = "none"
         /\ obs.choose.name \in DOMAIN variables
         /\ \E k \in 1..Len(obs.choose.opts) :
              variables[obs.choose.name] = EvalIn(obs.choose.opts[k], obs.choose.vars)
    ELSE /\ exc.kind = "error" \/ (status = "returned" /\ obs.raised.fatal)
         /\ obs.choose.name \notin DOMAIN variables

\* the value a literal denotes
Denotes(e) ==
  CASE e.t = "bool" -> BoolV(e.n = 1)
    [] e.t = "str" -> TextV(e.s)
    [] e.t = "int" -> IntV(e.n)
    [] OTHER -> ListV(e.s)

\* the bindings the rendered text declares: each line `let v = <literal>;`
\* binds v to what the literal denotes, a later line for v replacing an
\* earlier one
RECURSIVE LetBindings(_, _, _)
LetBindings(js, k, env) ==
  IF k > Len(js) THEN env
  ELSE LET reads == {b \in SetNames \X Literals :
                       js[k].s = "let " \o b[1] \o " = " \o ExprText(b[2]) \o ";"}
       IN IF reads = {} THEN LetBindings(js, k + 1, env)
          ELSE LET b == CHOOSE b \in reads : TRUE
               IN LetBindings(js, k + 1, Bind(env, b[1], Denotes(b[2])))

\* the text jam_to_js returns for the run's program in a fresh process
Rendered ==
  jam_to_js(code, [js |-> <<>>, symbol_table |-> <<>>, type_warnings |-> <<>>,
                   anon |-> 0, drifts |-> <<>>]).js

\* C22: after a run of `set v = <literal>` statements over well-formed
\* names, the evaluator's variables are exactly the bindings the generator's
\* `let v = <literal>;` lines declare, with the same values
C22_BackEndsAgreeOnSetLiterals ==
  (status = "returned" /\ code \in {Numbered(p) : p \in SetSeqs}) =>
    variables = LetBindings(Rendered, 1, EmptyDict)

\* the run is over: run_lines returned with every statement of the program
\* consumed, or an exception reached run_jam_code, which printed its line
Ended ==
  /\ status = "returned"
  /\ stack = <<>>
  /\ \/ obs.end = "consumed"
     \/ /\ obs.end = "aborted"
        /\ output # <<>>
        /\ output[Len(output)] = "Unexpected Error: " \o obs.raised.msg

\* C23: every run of run_jam_code eventually ends, with all statements
\* consumed or with a fatal diagnostic line, also when a function calls
\* itself or two functions call each other
C23_EveryRunEnds == <>Ended
\* a run of a self-recursive program that has ended
C23_Witness == Ended /\ code \in {Numbered(p) : p \in RecProgs} /\ obs.end = "aborted"

\* the lines of a rendered text without their indentation
Unindented(js) == [k \in 1..Len(js) |-> js[k].s]

\* C24: the first call of jam_to_js in a process, given the six-line program
\* BigSmall, returns the seven lines of an if/else chain with one closing
\* brace per block
C24_BigSmallRendersAsChain ==
  (renders # <<>> /\ renders[1].src = BigSmall) =>
    Unindented(renders[1].js) =
      <<"let x = 5;", "if (x > 3) {", "console.log(\"big\");", "}", "else {",
        "console.log(\"small\");", "}">>

\* the depth of line j of a block that starts at line start: the lines
\* before it that end with `{` less those that are `}`, blank lines and
\* comments not counted
DepthAt(lines, start, j) ==
  Cardinality({k \in start..(j - 1) : ~IsSkipped(lines[k]) /\ EndsWithBrace(lines[k])})
  - Cardinality({k \in start..(j - 1) : ~IsSkipped(lines[k]) /\ IsCloseBrace(lines[k])})
\* line j is `}` at depth 0
IsEnd(lines, start, j) ==
  /\ j \in start..Len(lines)
  /\ IsCloseBrace(lines[j])
  /\ DepthAt(lines, start, j) = 0
HasEnd(lines, start) == \E j \in start..Len(lines) : IsEnd(lines, start, j)
FirstEnd(lines, start) ==
  CHOOSE j \in start..Len(lines) :
    IsEnd(lines, start, j) /\ \A m \in start..(j - 1) : ~IsEnd(lines, start, m)
\* the lines from start up to line j, without blank lines and comments
IsKept(l) == ~IsSkipped(l)
Kept(lines, start, j) == SelectSeq(SubSeq(lines, start, j - 1), IsKept)

\* an activation whose handler cut a block out with parse_block and is
\* waiting for the block to run: the header is its line i, the block is the
\* lines of the activation above it
Parked(k) == k < Len(stack) /\ stack[k].pc \in {"branch", "elsebody", "repeat"}

\* C25: when the block after a header has a closing brace, parse_block
\* returns the index of the first line `}` at depth 0, and as block the lines
\* before it in order without the blank lines and comments
C25_ParseBlockEndsAtMatchingBrace ==
  \A k \in 1..Len(stack) :
    (Parked(k) /\ HasEnd(stack[k].lines, stack[k].i + 1)) =>
      /\ stack[k].j = FirstEnd(stack[k].lines, stack[k].i + 1)
      /\ stack[k + 1].lines = Kept(stack[k].lines, stack[k].i + 1, stack[k].j)
\* a block that holds a skipped line and a nested closing brace
C25_Witness ==
  \E k \in 1..Len(stack) :
    /\ Parked(k)
    /\ HasEnd(stack[k].lines, stack[k].i + 1)
    /\ \E m \in (stack[k].i + 1)..(stack[k].j - 1) : IsSkipped(stack[k].lines[m])
    /\ \E m \in (stack[k].i + 1)..(stack[k].j - 1) : IsCloseBrace(stack[k].lines[m])

\* the recognizers in their priority, the test each makes of a text, and
\* the value each gives to a text it recognizes
Recognizers == <<"bool", "str", "list", "int", "float", "name", "expr">>
Recognizes(r, e, env) ==
  CASE r = "name" -> ExprText(e) \in DOMAIN env
    [] r = "expr" -> PyEval(e, env).ok
    [] OTHER -> e.t = r
ValueBy(r, e, env) ==
  CASE r = "bool" -> BoolV(e.n = 1)
    [] r = "str" -> TextV(e.s)
    [] r = "list" -> ListV(e.s)
    [] r = "int" -> IntV(e.n)
    [] r = "float" -> FloatV(e.n, e.s)
    [] r = "name" -> env[ExprText(e)]
    [] OTHER -> PyEval(e, env).v
\* the value of the first recognizer that matches; the text itself if none
ByPriority(e, env) ==
  LET hits == {k \in 1..Len(Recognizers) : Recognizes(Recognizers[k], e, env)}
  IN IF hits = {} THEN TextV(ExprText(e))
     ELSE ValueBy(Recognizers[CHOOSE k \in hits : \A m \in hits : k <= m], e, env)

\* C26: the value eval_expr returns for a text is the value of the first
\* recognizer, in the order boolean, quoted text, list, integer, float,
\* bound name, arithmetic or comparison, that matches it; a literal is its
\* own value even when a variable of the same spelling is bound
C26_FirstRecognizerDecides ==
  obs.eval.n > 0 => obs.eval.got = ByPriority(obs.eval.e, obs.eval.vars)
\* a literal was evaluated while a variable spelled like it was bound
C26_Witness ==
  /\ obs.eval.n > 0
  /\ obs.eval.e.t \in {"bool", "str", "list", "int", "float"}
  /\ ExprText(obs.eval.e) \in DOMAIN obs.eval.vars

\* the six rules in their order, as tests of an identifier
Rules == <<"empty", "password", "brace", "typo", "chars", "reserved">>
RuleMatches(r, name) ==
  LET w == Chars(name)
  IN CASE r = "empty" -> name = ""
       [] r = "password" -> Contains(Lower(w), <<"p", "a", "s", "s", "w", "o", "r", "d">>)
       [] r = "brace" -> StartsWith(w, <<"{">>) /\ ~EndsWith(w, <<"}">>)
       [] r = "typo" ->
            \E k \in 1..Len(keyword_patterns) :
              \E q \in keyword_patterns[k].patterns : StartsWith(w, q)
       [] r = "chars" ->
            ~(/\ w # <<>>
              /\ w[1] \in Letters \cup {"_"}
              /\ \A k \in 2..Len(w) : w[k] \in Letters \cup Digits \cup {"_"})
       [] OTHER -> name \in reserved
RulesMatching(name) == {k \in 1..Len(Rules) : RuleMatches(Rules[k], name)}

\* C27: the diagnostic reported for an identifier is that of the first of
\* the six rules that matches it, and it is the only one reported: the
\* handler's output is the lines of that one diagnostic
C27_FirstMatchingRuleOnly ==
  obs.diag.n > 0 =>
    LET hits == RulesMatching(obs.diag.name)
    IN /\ hits # {}
       /\ obs.diag.d = validators(obs.diag.name)[CHOOSE k \in hits : \A h \in hits : k <= h]
       /\ Len(obs.trace) = obs.diag.n =>
            \E sg \in obs.diag.d.suggestions :
              output = obs.diag.out
                         \o format_n_show_error(obs.diag.d, sg, obs.diag.line, obs.diag.text)
\* an identifier that two of the rules match was diagnosed
C27_Witness ==
  /\ obs.diag.n > 0
  /\ Cardinality(RulesMatching(obs.diag.name)) >= 2
  /\ Len(obs.trace) = obs.diag.n

\* the source is `set` statements that give literals to one variable
OneVariable(src) ==
  /\ src # <<>>
  /\ \A k \in 1..Len(src) :
       /\ src[k].k = "set"
       /\ src[k].v = src[1].v
       /\ src[k].e.t \in {"int", "float", "bool", "str", "list"}
\* the warnings of the assignments from the k-th on whose kind differs from
\* the kind of the assignment just before
RECURSIVE DriftsFrom(_, _)
DriftsFrom(src, k) ==
  IF k > Len(src) THEN <<>>
  ELSE (IF src[k].e.t # src[k - 1].e.t
        THEN <<"Type mismatch for '" \o src[k].v \o "': previously " \o src[k - 1].e.t
               \o ", now " \o src[k].e.t>>
        ELSE <<>>)
       \o DriftsFrom(src, k + 1)

\* C28: after the first render of a process, of assignments to one
\* variable, the table holds the kind of the variable's last assignment, and
\* the warnings recorded are those of the assignments whose kind differs
\* from the kind of the assignment before
C28_TableFollowsLastAssignment ==
  (Len(renders) = 1 /\ OneVariable(renders[1].src)) =>
    /\ symbol_table[renders[1].src[1].v] = renders[1].src[Len(renders[1].src)].e.t
    /\ renders[1].drifts = DriftsFrom(renders[1].src, 2)

\* the lines a call prints from line i on when its statements run with the
\* dictionaries T
RECURSIVE OwnLines(_, _, _)
OwnLines(lines, i, T) ==
  IF i > Len(lines) THEN <<>>
  ELSE Exec(lines, i, T).out \o OwnLines(lines, Exec(lines, i, T).i, Exec(lines, i, T).T)

\* C29: the text a call of run_jam_code returns is the lines its own
\* statements printed, in order, however its steps interleave with those of
\* another call
C29_EachRunReturnsItsOwnLines ==
  \A r \in Requests :
    runs[r].phase = "returned" => runs[r].result = OwnLines(runs[r].code, 1, NoTables)

\* a call has just completed in the innermost activation: its handler set
\* last_return and no statement has run since
CallCompleted == status = "running" /\ stack # <<>> /\ Top.pc = "stmt" /\ Top.post # ""

\* C30: when a call of a known function has completed, last_return holds
\* the value of the return its body executed, the value of the return's
\* expression in the body's environment, or None if the body ran to its end
C30_LastReturnIsThisCallsResult ==
  CallCompleted =>
    /\ "last_return" \in DOMAIN variables
    /\ variables["last_return"] = IF Top.post = "end" THEN NoneV ELSE obs.eval.want
====
